---- MODULE Spec2Model ----
(***************************************************************************)
(* A model of the replication driver of redis-event (src/src/listener.rs): *)
(* the handshake state machine of Listener::start, the snapshot phase, the *)
(* command-stream loop, the heartbeat worker and the destructor.           *)
(*                                                                         *)
(* The master is the environment: every reply the driver reads is drawn    *)
(* from a small set at the step that reads it, so the reachable states     *)
(* cover every scripted reply sequence over that vocabulary.               *)
(***************************************************************************)
EXTENDS Integers, Sequences, FiniteSets, TLC

\* ------------------------------------------------------------------ bounds
MaxPsync == 2   \* PSYNC commands one run of start() may transmit
MaxCmds == 2    \* commands the streaming loop may decode
MaxAcks == 1    \* REPLCONF ACK commands the heartbeat worker may get onto the wire
MaxFlips == 2   \* writes of the caller to the shared running flag
MaxRdb == 1     \* largest advertised snapshot length, in bytes

VARIABLES
    config,            \* Listener.config: password, is_discard_rdb, is_aof, repl_id, repl_offset
    running,           \* the shared AtomicBool
    pc,                \* position of the driver thread inside start() / drop()
    mode,              \* the local `mode` of start(): "None" before start_sync returned
    result,            \* what start() produced: None, Ok, Err or Panic
    sent,              \* commands written on the socket, by either thread, in order
    length,            \* the snapshot length announced by the bulk header
    rdb_read,          \* snapshot bytes consumed so far
    events,            \* events delivered to the event handler, in order
    sender,            \* Listener.sender is Some
    heartbeat_thread,  \* Listener.heartbeat_thread.thread is Some
    hb_pc,             \* heartbeat worker: "none", "loop" or "done"
    hb_offset,         \* the worker's local `offset`
    acks,              \* REPLCONF ACK writes the worker attempted
    mailbox,           \* the mpsc channel, oldest message first
    reader,            \* io::CountReader of receive_aof: [marked, len]
    psync_reply,       \* what the last PSYNC read returned
    attempts,          \* PSYNC commands transmitted
    cmds,              \* commands decoded by the streaming loop
    flips,             \* writes of the caller to the running flag
    decoded,           \* the arrays the streaming loop counted into repl_offset, in order
    late,              \* history: commands counted since the caller last wrote false to the flag
    r_stream,          \* reader.rs Reader: the bytes its stream has yet to give
    r_len,             \* Reader.len
    r_marked,          \* Reader.marked
    r_ret,             \* what the last call on the Reader returned
    r_open,            \* history: mark() was called and unmark() not yet
    r_since,           \* history: bytes delivered to successful reads since the last mark()
    r_remarked         \* history: the last mark() was called with mark() already open

\* The state of the counting Reader of reader.rs, and of the driver.
rvars == << r_stream, r_len, r_marked, r_ret, r_open, r_since, r_remarked >>
lvars == << config, running, pc, mode, result, sent, length, rdb_read, events,
            sender, heartbeat_thread, hb_pc, hb_offset, acks, mailbox, reader,
            psync_reply, attempts, cmds, flips, decoded, late >>
vars == << lvars, rvars >>

\* ------------------------------------------------------------ wire replies
\* A reply line is its type byte and its text split at white space.
Line(type, words) == [type |-> type, words |-> words]

UnknownPsync == << "ERR", "unknown", "command", "'PSYNC'" >>

\* Replies a master (or a scripted peer) may give to PSYNC.
PsyncReplies ==
    { Line("+", << "FULLRESYNC", "id1", "7" >>),
      Line("+", << "FULLRESYNC", "id1", "x" >>),
      Line("+", << "FULLRESYNC", "id1" >>),
      Line("+", << "FULLRESYNC" >>),
      Line("+", << "CONTINUE" >>),
      Line("+", << "CONTINUE", "id2" >>),
      Line("+", << "NOMASTERLINK" >>),
      Line("+", << "LOADING" >>),
      Line("+", << "OK" >>),
      Line(":", << "1" >>),
      Line("-", UnknownPsync),
      Line("-", << "ERR", "unknown", "command", "`PSYNC`,", "with", "args" >>),
      Line("-", << "NOMASTERLINK", "Can't", "SYNC" >>),
      Line("-", << "LOADING", "Redis", "is", "loading" >>) }

\* Replies to AUTH and to REPLCONF listening-port.
SimpleReplies ==
    { Line("+", << "OK" >>), Line("-", << "ERR", "invalid", "password" >>) }

\* What one read of the socket gives: a reply, or an I/O error kind.
IoErrors == { "WouldBlock", "TimedOut", "ConnectionReset" }
NoLine == Line("", << >>)
Reads(replies) ==
    { [io |-> "ok", reply |-> r] : r \in replies }
        \cup { [io |-> e, reply |-> NoLine] : e \in IoErrors }

\* The header that announces the snapshot: a type byte and a length, or an I/O error.
Headers ==
    { [io |-> "ok", type |-> "$", n |-> n] : n \in 0..MaxRdb }
        \cup { [io |-> "ok", type |-> "+", n |-> 0] }
        \cup { [io |-> "ConnectionReset", type |-> "", n |-> 0] }

\* ------------------------------------------------------------ RESP decode
NoErr == [kind |-> "", msg |-> << >>]
NoResp == [tag |-> "", words |-> << >>]
RespOk(tag, words) == [ok |-> TRUE, resp |-> [tag |-> tag, words |-> words], err |-> NoErr]
RespErr(kind, msg) == [ok |-> FALSE, resp |-> NoResp, err |-> [kind |-> kind, msg |-> msg]]

\* RespDecode::decode_resp: the first byte selects the variant; an Error
\* payload is surfaced as Err whose message is the server's text.
decode_resp(rd) ==
    IF rd.io # "ok" THEN RespErr(rd.io, << >>)
    ELSE CASE rd.reply.type = "+" -> RespOk("String", rd.reply.words)
           [] rd.reply.type = "-" -> RespErr("InvalidData", rd.reply.words)
           [] rd.reply.type = ":" -> RespOk("Int", rd.reply.words)
           [] rd.reply.type = "$" -> RespOk("BulkBytes", rd.reply.words)
           [] OTHER -> RespOk("Array", rd.reply.words)

\* io::Error's Display: a custom error prints its message, an OS error its kind.
to_string(err) == IF err.kind = "InvalidData" THEN err.msg ELSE << err.kind >>

\* str::starts_with on the reply text: the text starts with the first word.
starts_with(words, prefix) ==
    /\ Len(words) >= 1
    /\ \/ words[1] = prefix
       \/ << words[1], prefix >> \in { << "FULLRESYNCED", "FULLRESYNC" >> }

\* str::parse::<i64> over the number words of the vocabulary.
ParseTable == ("0" :> 0) @@ ("7" :> 7) @@ ("-1" :> -1)
parse_i64(word) ==
    IF word \in DOMAIN ParseTable
    THEN [some |-> TRUE, val |-> ParseTable[word]]
    ELSE [some |-> FALSE, val |-> 0]

\* ------------------------------------------------------------- psync, sync
\* The outcome of psync() / sync(): out is "Ok", "Err" or "Panic".
Outcome(out, step, len, id, off, err) ==
    [out |-> out, next_step |-> step, length |-> len,
     repl_id |-> id, repl_offset |-> off, err |-> err]

\* The bulk header read after FULLRESYNC and after SYNC.
read_header(hdr, id, off) ==
    IF hdr.io # "ok" THEN Outcome("Err", "", -1, id, off, [kind |-> hdr.io, msg |-> << >>])
    ELSE IF hdr.type = "$" THEN Outcome("Ok", "FullSync", hdr.n, id, off, NoErr)
    ELSE Outcome("Panic", "", -1, id, off, NoErr)

\* Mutant of psync_fullresync: the announced offset is not stored.
psync_fullresync_keeps_offset(cfg, words, hdr) ==
    IF Len(words) < 2 THEN Outcome("Panic", "", -1, cfg.repl_id, cfg.repl_offset, NoErr)
    ELSE IF Len(words) < 3 THEN Outcome("Panic", "", -1, words[2], cfg.repl_offset, NoErr)
    ELSE IF ~parse_i64(words[3]).some
         THEN Outcome("Panic", "", -1, words[2], cfg.repl_offset, NoErr)
    ELSE read_header(hdr, words[2], cfg.repl_offset)

\* psync(), the FULLRESYNC branch.
psync_fullresync(cfg, words, hdr) ==
    IF Len(words) < 2 THEN Outcome("Panic", "", -1, cfg.repl_id, cfg.repl_offset, NoErr)
    ELSE IF Len(words) < 3 THEN Outcome("Panic", "", -1, words[2], cfg.repl_offset, NoErr)
    ELSE IF ~parse_i64(words[3]).some
         THEN Outcome("Panic", "", -1, words[2], cfg.repl_offset, NoErr)
    ELSE read_header(hdr, words[2], parse_i64(words[3]).val)

\* Mutant of psync_continue: the id of the reply is not adopted.
psync_continue_keeps_id(cfg, words) ==
    Outcome("Ok", "PartialResync", -1, cfg.repl_id, cfg.repl_offset, NoErr)

\* psync(), the CONTINUE branch.
psync_continue(cfg, words) ==
    Outcome("Ok", "PartialResync", -1,
            IF Len(words) >= 2 /\ words[2] # cfg.repl_id THEN words[2] ELSE cfg.repl_id,
            cfg.repl_offset, NoErr)

\* psync(), a reply that decoded to a value.
psync_ok(cfg, resp, hdr) ==
    IF resp.tag = "String" /\ starts_with(resp.words, "FULLRESYNC")
        THEN psync_fullresync(cfg, resp.words, hdr)
    ELSE IF resp.tag = "String" /\ starts_with(resp.words, "CONTINUE")
        THEN psync_continue(cfg, resp.words)
    ELSE IF resp.tag = "String" /\ starts_with(resp.words, "NOMASTERLINK")
        THEN Outcome("Ok", "Wait", -1, cfg.repl_id, cfg.repl_offset, NoErr)
    ELSE IF resp.tag = "String" /\ starts_with(resp.words, "LOADING")
        THEN Outcome("Ok", "Wait", -1, cfg.repl_id, cfg.repl_offset, NoErr)
    ELSE Outcome("Panic", "", -1, cfg.repl_id, cfg.repl_offset, NoErr)

\* Mutant of psync_err: every error reply falls back to SYNC.
psync_err_any(cfg, err) ==
    Outcome("Ok", "ChangeMode", -1, cfg.repl_id, cfg.repl_offset, NoErr)

\* psync(), a reply that decoded to Err: only the literal text falls back to SYNC.
psync_err(cfg, err) ==
    IF to_string(err) = UnknownPsync
    THEN Outcome("Ok", "ChangeMode", -1, cfg.repl_id, cfg.repl_offset, NoErr)
    ELSE Outcome("Err", "", -1, cfg.repl_id, cfg.repl_offset, err)

WriteErr == [kind |-> "BrokenPipe", msg |-> << >>]

psync(cfg, sendOk, rd, hdr) ==
    IF ~sendOk THEN Outcome("Err", "", -1, cfg.repl_id, cfg.repl_offset, WriteErr)
    ELSE IF decode_resp(rd).ok THEN psync_ok(cfg, decode_resp(rd).resp, hdr)
    ELSE psync_err(cfg, decode_resp(rd).err)

sync(cfg, sendOk, hdr) ==
    IF ~sendOk THEN Outcome("Err", "", -1, cfg.repl_id, cfg.repl_offset, WriteErr)
    ELSE read_header(hdr, cfg.repl_id, cfg.repl_offset)

\* ------------------------------------------------------------------- state
Configs ==
    { [password |-> p, is_discard_rdb |-> d, is_aof |-> a,
       repl_id |-> r[1], repl_offset |-> r[2]] :
        p \in { "", "pw" }, d \in BOOLEAN, a \in BOOLEAN,
        r \in { << "?", -1 >> } }

NoResult == [kind |-> "None", err |-> NoErr, at |-> ""]
NoRead == [io |-> "", reply |-> NoLine]

\* Reader::new: nothing counted, not marked.
NoRet == [op |-> "new", kind |-> "Ok", val |-> << >>, input |-> << >>, prev |-> FALSE]
ReaderNew(stream) ==
    /\ r_stream = stream
    /\ r_len = 0
    /\ r_marked = FALSE
    /\ r_ret = NoRet
    /\ r_open = FALSE
    /\ r_since = 0
    /\ r_remarked = FALSE

\* Builder::build: the driver before start().
ListenerNew(configs) ==
    /\ config \in configs
    /\ running = TRUE
    /\ pc = "connect"
    /\ mode = "None"
    /\ result = NoResult
    /\ sent = << >>
    /\ length = -1
    /\ rdb_read = 0
    /\ events = << >>
    /\ sender = FALSE
    /\ heartbeat_thread = FALSE
    /\ hb_pc = "none"
    /\ hb_offset = 0
    /\ acks = 0
    /\ mailbox = << >>
    /\ reader = [marked |-> FALSE, len |-> 0]
    /\ psync_reply = NoRead
    /\ attempts = 0
    /\ cmds = 0
    /\ flips = 0
    /\ decoded = << >>
    /\ late = 0

Init == ListenerNew(Configs) /\ ReaderNew(<< >>)

Cmd(by, name, args) == [by |-> by, cmd |-> name, args |-> args]

\* start() ends: `return`/`?` give Ok or Err, a panic unwinds.
Finish(kind, err, at) ==
    /\ result' = [kind |-> kind, err |-> err, at |-> at]
    /\ pc' = IF kind = "Panic" THEN "panicked" ELSE "returned"

\* Listener::is_running
is_running == running

\* ------------------------------------------------------------- the caller
\* The caller stores to the shared flag at any moment while start() runs (the
\* flag is not read after start() ended).
SetRunning ==
    /\ flips < MaxFlips
    /\ result.kind = "None"
    /\ running' = ~running
    /\ flips' = flips + 1
    /\ late' = 0
    /\ UNCHANGED << config, pc, mode, result, sent, length, rdb_read, events, sender,
                    heartbeat_thread, hb_pc, hb_offset, acks, mailbox, reader,
                    psync_reply, attempts, cmds, decoded, rvars >>

\* ------------------------------------------------------------- handshake
connect ==
    /\ pc = "connect"
    /\ \E ok \in BOOLEAN :
        IF ok THEN pc' = "auth" /\ UNCHANGED result
        ELSE Finish("Err", [kind |-> "ConnectionRefused", msg |-> << >>], "connect")
    /\ UNCHANGED << config, running, mode, sent, length, rdb_read, events, sender,
                    heartbeat_thread, hb_pc, hb_offset, acks, mailbox, reader,
                    psync_reply, attempts, cmds, flips, decoded, late, rvars >>

\* Mutant of needs_auth: AUTH is sent whatever the password.
needs_auth_always(cfg) == TRUE

\* auth(): `if !self.config.password.is_empty()`
needs_auth(cfg) == cfg.password # ""

auth ==
    /\ pc = "auth"
    /\ IF needs_auth(config)
       THEN \E sendOk \in BOOLEAN, rd \in Reads(SimpleReplies) :
            IF ~sendOk THEN Finish("Err", WriteErr, "auth") /\ UNCHANGED sent
            ELSE /\ sent' = Append(sent, Cmd("driver", "AUTH", << config.password >>))
                 /\ IF decode_resp(rd).ok THEN pc' = "send_port" /\ UNCHANGED result
                    ELSE Finish("Err", decode_resp(rd).err, "auth")
       ELSE pc' = "send_port" /\ UNCHANGED << result, sent >>
    /\ UNCHANGED << config, running, mode, length, rdb_read, events, sender,
                    heartbeat_thread, hb_pc, hb_offset, acks, mailbox, reader,
                    psync_reply, attempts, cmds, flips, decoded, late, rvars >>

send_port ==
    /\ pc = "send_port"
    /\ \E sendOk \in BOOLEAN, rd \in Reads(SimpleReplies) :
        IF ~sendOk THEN Finish("Err", WriteErr, "send_port") /\ UNCHANGED sent
        ELSE /\ sent' = Append(sent, Cmd("driver", "REPLCONF", << "listening-port" >>))
             /\ IF decode_resp(rd).ok THEN pc' = "psync" /\ UNCHANGED result
                ELSE Finish("Err", decode_resp(rd).err, "send_port")
    /\ UNCHANGED << config, running, mode, length, rdb_read, events, sender,
                    heartbeat_thread, hb_pc, hb_offset, acks, mailbox, reader,
                    psync_reply, attempts, cmds, flips, decoded, late, rvars >>

\* start_sync(), up to what psync() returned.
start_sync_psync ==
    /\ pc = "psync"
    /\ attempts < MaxPsync
    /\ \E sendOk \in BOOLEAN, rd \in Reads(PsyncReplies), hdr \in Headers :
        LET o == psync(config, sendOk, rd, hdr) IN
        /\ sent' = IF sendOk
                   THEN Append(sent, Cmd("driver", "PSYNC",
                                         << config.repl_id, config.repl_offset >>))
                   ELSE sent
        /\ attempts' = IF sendOk THEN attempts + 1 ELSE attempts
        /\ psync_reply' = IF sendOk THEN rd ELSE psync_reply
        /\ config' = [config EXCEPT !.repl_id = o.repl_id, !.repl_offset = o.repl_offset]
        /\ IF o.out = "Ok"
           THEN /\ UNCHANGED result
                /\ CASE o.next_step = "FullSync" ->
                            pc' = "rdb" /\ mode' = "PSync" /\ length' = o.length
                     [] o.next_step = "ChangeMode" ->
                            pc' = "sync" /\ mode' = "Sync" /\ UNCHANGED length
                     [] o.next_step = "PartialResync" ->
                            pc' = "synced" /\ mode' = "PSync" /\ UNCHANGED length
                     [] OTHER ->
                            pc' = "wait" /\ mode' = "Wait" /\ UNCHANGED length
           ELSE Finish(o.out, o.err, "psync") /\ UNCHANGED << mode, length >>
    /\ UNCHANGED << running, rdb_read, events, sender, heartbeat_thread, hb_pc,
                    hb_offset, acks, mailbox, reader, cmds, flips, decoded, late, rvars >>

\* start_sync(), the ChangeMode branch: length = self.sync()?
start_sync_sync ==
    /\ pc = "sync"
    /\ \E sendOk \in BOOLEAN, hdr \in Headers :
        LET o == sync(config, sendOk, hdr) IN
        /\ sent' = IF sendOk THEN Append(sent, Cmd("driver", "SYNC", << >>)) ELSE sent
        /\ IF o.out = "Ok"
           THEN pc' = "rdb" /\ length' = o.length /\ UNCHANGED result
           ELSE Finish(o.out, o.err, "sync") /\ UNCHANGED length
    /\ UNCHANGED << config, running, mode, rdb_read, events, sender, heartbeat_thread,
                    hb_pc, hb_offset, acks, mailbox, reader, psync_reply, attempts,
                    cmds, flips, decoded, late, rvars >>

\* -------------------------------------------------------------- snapshot
Rdb(n) == [kind |-> "rdb", id |-> n]
Eor == [kind |-> "eor", id |-> 0]
Command(n) == [kind |-> "cmd", id |-> n]

\* io::skip(input, length): reads and discards exactly `len` bytes, or fails
\* after k of them.
skip(len, ok, k) == [ok |-> ok, read |-> IF ok THEN len ELSE k, events |-> << >>]

\* RDBParser::parse(input, length, handler): consumes the `len` bytes of the dump
\* and hands `objs` objects, then EOR, to the handler; or fails after k bytes.
parse(len, ok, k, objs) ==
    [ok |-> ok, read |-> IF ok THEN len ELSE k,
     events |-> [i \in 1..objs |-> Rdb(i)] \o (IF ok THEN << Eor >> ELSE << >>)]

\* The number of objects in the dumps the master sends.
DumpObjects == { 1 }

\* Mutant of consume_rdb: the snapshot is parsed even when is_discard_rdb.
consume_rdb_parses(cfg, len, ok, k, objs) == parse(len, ok, k, objs)

\* start_sync(), the snapshot: skipped when is_discard_rdb, parsed otherwise.
consume_rdb(cfg, len, ok, k, objs) ==
    IF cfg.is_discard_rdb THEN skip(len, ok, k) ELSE parse(len, ok, k, objs)

start_sync_rdb ==
    /\ pc = "rdb"
    /\ \E ok \in BOOLEAN, k \in 0..MaxRdb, objs \in DumpObjects :
        /\ k <= length
        /\ ok \/ k < length \/ length = 0
        /\ LET o == consume_rdb(config, length, ok, k, objs) IN
            /\ rdb_read' = rdb_read + o.read
            /\ events' = events \o o.events
            /\ IF o.ok THEN pc' = "synced" /\ UNCHANGED result
               ELSE Finish("Err", [kind |-> "UnexpectedEof", msg |-> << >>], "rdb")
    /\ UNCHANGED << config, running, mode, sent, length, sender, heartbeat_thread,
                    hb_pc, hb_offset, acks, mailbox, reader, psync_reply, attempts,
                    cmds, flips, decoded, late, rvars >>

\* ------------------------------------------------------- start(): the loop
\* Mutant of wait_next: the wait loop never looks at the flag.
wait_next_ignores_flag(run) == "psync"

\* Mode::Wait: sleep and retry while the flag is set, return Ok when it is not.
wait_next(run) == IF run THEN "psync" ELSE "returned"

start_wait ==
    /\ pc = "wait"
    /\ IF wait_next(is_running) = "psync"
       THEN pc' = "psync" /\ UNCHANGED result
       ELSE Finish("Ok", NoErr, "wait")
    /\ UNCHANGED << config, running, mode, sent, length, rdb_read, events, sender,
                    heartbeat_thread, hb_pc, hb_offset, acks, mailbox, reader,
                    psync_reply, attempts, cmds, flips, decoded, late, rvars >>

\* Mutant of enters_stream: the streaming phase is entered whatever is_aof.
enters_stream_always(cfg, m) == TRUE

\* After the loop: `if !self.config.is_aof { Ok(()) } else { ... }`
enters_stream(cfg, m) == cfg.is_aof

start_synced ==
    /\ pc = "synced"
    /\ IF enters_stream(config, mode)
       THEN pc' = "start_heartbeat" /\ UNCHANGED result
       ELSE Finish("Ok", NoErr, "synced")
    /\ UNCHANGED << config, running, mode, sent, length, rdb_read, events, sender,
                    heartbeat_thread, hb_pc, hb_offset, acks, mailbox, reader,
                    psync_reply, attempts, cmds, flips, decoded, late, rvars >>

\* Mutant of spawns_heartbeat: the mode is not looked at.
spawns_heartbeat_any_mode(run, m) == run

\* start_heartbeat(): no worker when the flag is cleared or the mode is Sync.
spawns_heartbeat(run, m) == run /\ m # "Sync"

\* Mutant of start_heartbeat: with the worker spawned the driver sends PSYNC again.
start_heartbeat_resyncs ==
    /\ pc = "start_heartbeat"
    /\ pc' = "psync"
    /\ IF spawns_heartbeat(is_running, mode)
       THEN /\ hb_pc' = "loop"
            /\ hb_offset' = 0
            /\ heartbeat_thread' = TRUE
            /\ sender' = TRUE
       ELSE UNCHANGED << hb_pc, hb_offset, heartbeat_thread, sender >>
    /\ UNCHANGED << config, running, mode, result, sent, length, rdb_read, events,
                    acks, mailbox, reader, psync_reply, attempts, cmds, flips, decoded, late, rvars >>

start_heartbeat ==
    /\ pc = "start_heartbeat"
    /\ pc' = "aof_loop"
    /\ IF spawns_heartbeat(is_running, mode)
       THEN /\ hb_pc' = "loop"
            /\ hb_offset' = 0
            /\ heartbeat_thread' = TRUE
            /\ sender' = TRUE
       ELSE UNCHANGED << hb_pc, hb_offset, heartbeat_thread, sender >>
    /\ UNCHANGED << config, running, mode, result, sent, length, rdb_read, events,
                    acks, mailbox, reader, psync_reply, attempts, cmds, flips, decoded, late, rvars >>

\* ---------------------------------------------------------- command stream
\* One element of an array on the wire: its type byte and its payload length.
Bulk(n) == [type |-> "$", len |-> n]
Int1 == [type |-> ":", len |-> 1]
NoElems == << >>

\* What the streaming loop may read next.
StreamReads ==
    { [io |-> "ok", type |-> "*", elems |-> e] :
        e \in { << Bulk(4) >>, << Bulk(3), Bulk(1), Bulk(10) >>, << Bulk(3), Int1 >> } }
        \cup { [io |-> "ok", type |-> t, elems |-> NoElems] : t \in { "+", "-" } }
        \cup { [io |-> e, type |-> "", elems |-> NoElems] : e \in IoErrors }

RECURSIVE digits(_)
\* The decimal digits of a length prefix.
digits(n) == IF n < 10 THEN 1 ELSE 1 + digits(n \div 10)

\* io::CountReader: mark() arms the counter, every read made while it is armed
\* adds the bytes it delivered, reset() returns the count and disarms.
mark(r) == [marked |-> TRUE, len |-> 0]
count(r, n) == IF r.marked THEN [r EXCEPT !.len = @ + n] ELSE r
reset(r) ==
    [ok |-> r.marked, size |-> IF r.marked THEN r.len ELSE 0,
     reader |-> IF r.marked THEN [marked |-> FALSE, len |-> 0] ELSE r]

\* The bytes one element takes: type byte, length line, and for a bulk its
\* payload and the closing CRLF.
elem_bytes(e) ==
    IF e.type = "$" THEN 1 + digits(e.len) + 2 + e.len + 2
    ELSE 1 + e.len + 2

RECURSIVE read_elems(_, _)
read_elems(r, elems) ==
    IF elems = << >> THEN r
    ELSE read_elems(count(r, elem_bytes(Head(elems))), Tail(elems))

\* decode_resp of one array through the counting reader.
read_array(r, elems) == read_elems(count(r, 1 + digits(Len(elems)) + 2), elems)

\* Mutant of advance: `=` where the code has `+=`.
advance_assigns(offset, size) == size

\* `self.config.repl_offset += size`
advance(offset, size) == offset + size

Some(off) == [tag |-> "Some", off |-> off]
Terminate == [tag |-> "Terminate", off |-> 0]

\* Mutant of channel_send: the message is lost.
channel_send_lost(box, alive, msg) == box

\* mpsc::Sender::send: queued while the receiver lives, Err once the worker is gone.
channel_send(box, alive, msg) == IF alive THEN Append(box, msg) ELSE box

\* Mutant of receive_aof_loop: the flag is not looked at.
receive_aof_loop_blind ==
    /\ pc = "aof_loop"
    /\ pc' = "aof_read"
    /\ UNCHANGED << config, running, mode, result, sent, length, rdb_read, events, sender,
                    heartbeat_thread, hb_pc, hb_offset, acks, mailbox, reader,
                    psync_reply, attempts, cmds, flips, decoded, late, rvars >>

\* `while self.is_running()`
receive_aof_loop ==
    /\ pc = "aof_loop"
    /\ IF is_running THEN pc' = "aof_read" /\ UNCHANGED result
       ELSE Finish("Ok", NoErr, "receive_aof")
    /\ UNCHANGED << config, running, mode, sent, length, rdb_read, events, sender,
                    heartbeat_thread, hb_pc, hb_offset, acks, mailbox, reader,
                    psync_reply, attempts, cmds, flips, decoded, late, rvars >>

\* What `reader.decode_resp()?` makes of the read: "Array", "Err" or "Panic".
stream_decode(rd) ==
    IF rd.io # "ok" THEN [out |-> "Err", err |-> [kind |-> rd.io, msg |-> << >>]]
    ELSE IF rd.type = "-"
        THEN [out |-> "Err", err |-> [kind |-> "InvalidData", msg |-> << "ERR" >>]]
    ELSE IF rd.type = "*" THEN [out |-> "Array", err |-> NoErr]
    ELSE [out |-> "Panic", err |-> NoErr]

\* The body of the loop up to the handler call: mark, decode, reset, collect the
\* bulk strings, advance the offset, push it to the heartbeat mailbox.
receive_aof_decode ==
    /\ pc = "aof_read"
    /\ cmds < MaxCmds
    /\ \E rd \in StreamReads :
        LET d == stream_decode(rd)
            r == reset(read_array(mark(reader), rd.elems))
            off == advance(config.repl_offset, r.size)
        IN
        IF d.out # "Array"
        THEN /\ Finish(d.out, d.err, "receive_aof")
             /\ reader' = mark(reader)
             /\ UNCHANGED << config, mailbox, cmds, decoded, late >>
        ELSE /\ reader' = r.reader
             /\ IF \E i \in 1..Len(rd.elems) : rd.elems[i].type # "$"
                THEN /\ Finish("Panic", NoErr, "receive_aof")
                     /\ UNCHANGED << config, mailbox, cmds, decoded, late >>
                ELSE /\ config' = [config EXCEPT !.repl_offset = off]
                     /\ cmds' = cmds + 1
                     /\ decoded' = Append(decoded, rd.elems)
                     /\ late' = IF is_running THEN late ELSE late + 1
                     /\ IF mode = "PSync" /\ ~sender
                        THEN Finish("Panic", NoErr, "receive_aof") /\ UNCHANGED mailbox
                        ELSE /\ pc' = "aof_handle"
                             /\ UNCHANGED result
                             /\ mailbox' = IF mode = "PSync"
                                           THEN channel_send(mailbox, hb_pc = "loop", Some(off))
                                           ELSE mailbox
    /\ UNCHANGED << running, mode, sent, length, rdb_read, events, sender,
                    heartbeat_thread, hb_pc, hb_offset, acks, psync_reply, attempts,
                    flips, rvars >>

\* `cmd::parse(vec, handler)`: the command event reaches the handler.
receive_aof_handle ==
    /\ pc = "aof_handle"
    /\ events' = Append(events, Command(cmds))
    /\ pc' = "aof_loop"
    /\ UNCHANGED << config, running, mode, result, sent, length, rdb_read, sender,
                    heartbeat_thread, hb_pc, hb_offset, acks, mailbox, reader,
                    psync_reply, attempts, cmds, flips, decoded, late, rvars >>

\* -------------------------------------------------------- heartbeat worker
\* Mutant of hb_tick: the worker goes on after a failed write.
hb_tick_survives(off, elapsed) ==
    IF ~elapsed THEN UNCHANGED << sent, acks >> /\ hb_pc' = "loop"
    ELSE /\ acks < MaxAcks
         /\ acks' = acks + 1
         /\ hb_pc' = "loop"
         /\ \E ok \in BOOLEAN :
             IF ok THEN sent' = Append(sent, Cmd("heartbeat", "REPLCONF", << "ACK", off >>))
             ELSE UNCHANGED sent

\* The tail of one loop iteration: when half a second has elapsed since the
\* last ACK, write REPLCONF ACK <offset>; a failed write ends the worker.
hb_tick(off, elapsed) ==
    IF ~elapsed THEN UNCHANGED << sent, acks >> /\ hb_pc' = "loop"
    ELSE /\ acks' = acks + 1
         /\ \E ok \in BOOLEAN :
             IF ok THEN /\ Len(SelectSeq(sent, LAMBDA c : c.by = "heartbeat")) < MaxAcks
                        /\ sent' = Append(sent, Cmd("heartbeat", "REPLCONF", << "ACK", off >>))
                        /\ hb_pc' = "loop"
             ELSE UNCHANGED sent /\ hb_pc' = "done"

\* Mutant of hb_terminate: the worker takes Terminate and goes on looping.
hb_terminate_ignored ==
    /\ hb_pc = "loop"
    /\ mailbox # << >>
    /\ Head(mailbox).tag = "Terminate"
    /\ mailbox' = Tail(mailbox)
    /\ UNCHANGED << config, running, pc, mode, result, sent, length, rdb_read, events,
                    sender, heartbeat_thread, hb_pc, hb_offset, acks, reader, psync_reply,
                    attempts, cmds, flips, decoded, late, rvars >>

\* recv_timeout gave Ok(Message::Terminate)
hb_terminate ==
    /\ hb_pc = "loop"
    /\ mailbox # << >>
    /\ Head(mailbox).tag = "Terminate"
    /\ mailbox' = Tail(mailbox)
    /\ hb_pc' = "done"
    /\ UNCHANGED << config, running, pc, mode, result, sent, length, rdb_read, events,
                    sender, heartbeat_thread, hb_offset, acks, reader, psync_reply,
                    attempts, cmds, flips, decoded, late, rvars >>

\* recv_timeout gave Ok(Message::Some(new_offset))
hb_offset_update ==
    /\ hb_pc = "loop"
    /\ mailbox # << >>
    /\ Head(mailbox).tag = "Some"
    /\ mailbox' = Tail(mailbox)
    /\ hb_offset' = Head(mailbox).off
    /\ \E elapsed \in BOOLEAN : hb_tick(Head(mailbox).off, elapsed)
    /\ UNCHANGED << config, running, pc, mode, result, length, rdb_read, events,
                    sender, heartbeat_thread, reader, psync_reply, attempts, cmds, flips, decoded, late, rvars >>

\* recv_timeout gave Err: half a second passed with the mailbox empty
hb_timeout ==
    /\ hb_pc = "loop"
    /\ mailbox = << >>
    /\ hb_tick(hb_offset, TRUE)
    /\ UNCHANGED << config, running, pc, mode, result, length, rdb_read, events,
                    sender, heartbeat_thread, hb_offset, mailbox, reader, psync_reply,
                    attempts, cmds, flips, decoded, late, rvars >>

\* ------------------------------------------------------------------- Drop
\* drop(): send Terminate when there is a sender ...
drop_send ==
    /\ pc \in { "returned", "panicked" }
    /\ pc' = "drop_join"
    /\ mailbox' = IF sender THEN channel_send(mailbox, hb_pc = "loop", Terminate) ELSE mailbox
    /\ UNCHANGED << config, running, mode, result, sent, length, rdb_read, events,
                    sender, heartbeat_thread, hb_pc, hb_offset, acks, reader,
                    psync_reply, attempts, cmds, flips, decoded, late, rvars >>

\* Mutant of joined: drop() does not wait for the worker.
joined_no_wait(handle, worker) == TRUE

\* ... then join the worker when there is one: join returns once it has exited.
joined(handle, worker) == handle => worker = "done"

drop_join ==
    /\ pc = "drop_join"
    /\ joined(heartbeat_thread, hb_pc)
    /\ heartbeat_thread' = FALSE
    /\ pc' = "dropped"
    /\ UNCHANGED << config, running, mode, result, sent, length, rdb_read, events,
                    sender, hb_pc, hb_offset, acks, mailbox, reader, psync_reply,
                    attempts, cmds, flips, decoded, late, rvars >>

\* ------------------------------------------------------------------ system
Next ==
    \/ SetRunning
    \/ connect
    \/ auth
    \/ send_port
    \/ start_sync_psync
    \/ start_sync_sync
    \/ start_sync_rdb
    \/ start_wait
    \/ start_synced
    \/ start_heartbeat
    \/ receive_aof_loop
    \/ receive_aof_decode
    \/ receive_aof_handle
    \/ hb_terminate
    \/ hb_offset_update
    \/ hb_timeout
    \/ drop_send
    \/ drop_join

Spec == Init /\ [][Next]_vars

\* The worker is a thread of its own and join() is a blocking call: a step of
\* the worker, or the return of join(), that stays possible is taken.
\* The configurations that reach the command stream with a password-free
\* handshake and a parsed snapshot: the ones the worker's life depends on.
FairConfigs == { c \in Configs : c.is_aof /\ c.password = "" /\ ~c.is_discard_rdb }

FairInit == ListenerNew(FairConfigs) /\ ReaderNew(<< >>)

\* The worker thread and join() get scheduled; that a write on the socket
\* fails is never forced.
FairSpec ==
    /\ FairInit
    /\ [][Next]_vars
    /\ WF_vars(hb_terminate)
    /\ WF_vars(hb_offset_update)
    /\ WF_vars(hb_timeout /\ hb_pc' = "loop")
    /\ WF_vars(drop_join)

\* ------------------------------------------------------------- vocabulary
Returned == result.kind \in { "Ok", "Err" }
Spawned == hb_pc # "none"
InStream == pc \in { "aof_loop", "aof_read", "aof_handle" }
TimeoutKinds == { "WouldBlock", "TimedOut" }

\* The names of the commands the driver thread wrote, in order.
DriverCmds ==
    LET mine == SelectSeq(sent, LAMBDA c : c.by = "driver")
    IN [i \in 1..Len(mine) |-> mine[i].cmd]

Sent(name) == \E i \in 1..Len(DriverCmds) : DriverCmds[i] = name
CmdEvents == { i \in 1..Len(events) : events[i].kind = "cmd" }
RdbEvents == { i \in 1..Len(events) : events[i].kind \in { "rdb", "eor" } }

C2_StreamTimeoutNotReturned ==
    ~(result.kind = "Err" /\ result.at = "receive_aof" /\ result.err.kind \in TimeoutKinds)

IsTransient(rd) ==
    /\ rd.io = "ok"
    /\ rd.reply.type = "-"
    /\ rd.reply.words[1] \in { "NOMASTERLINK", "LOADING" }

\* C4 as stated: a PSYNC answered with the RESP error -NOMASTERLINK or -LOADING
\* is not returned to the caller as an error.
C4_TransientErrorNotReturned ==
    IsTransient(psync_reply) => ~(result.kind = "Err" /\ result.at = "psync")

\* ---------------------------------------------------------------------- C5
\* C5: leaving the wait state, the driver returns Ok when it finds the flag
\* cleared, with no snapshot byte consumed, no worker spawned and no event
\* delivered; when it finds the flag set it goes on to the next PSYNC.
C5_WaitPollsFlag ==
    [][ (pc = "wait" /\ pc' # "wait") =>
            IF running
            THEN pc' = "psync" /\ result' = result
            ELSE /\ pc' = "returned" /\ result'.kind = "Ok"
                 /\ rdb_read' = 0 /\ events' = << >>
                 /\ hb_pc' = "none" /\ ~sender' /\ ~heartbeat_thread' ]_vars

C5_Witness ==
    /\ result.kind = "Ok" /\ result.at = "wait"
    /\ attempts >= 2 /\ ~running

\* ---------------------------------------------------------------------- C6
IsPrefix(a, b) == Len(a) <= Len(b) /\ \A i \in 1..Len(a) : a[i] = b[i]
AuthPart == IF config.password # "" THEN << "AUTH" >> ELSE << >>

\* C6 as stated: what the driver transmits is AUTH (if and only if there is a
\* password), REPLCONF listening-port, PSYNC and optionally SYNC, in this
\* order and nothing else.
C6_HandshakeOnce ==
    IsPrefix(DriverCmds, AuthPart \o << "REPLCONF", "PSYNC", "SYNC" >>)

\* C6, amended to allow the retries of the wait loop: AUTH (if and only if
\* there is a password), REPLCONF listening-port, PSYNC one or more times, and
\* optionally SYNC right after the last PSYNC, in this order and nothing else.
C6_HandshakeOrder ==
    LET a == Len(AuthPart)
        n == Len(DriverCmds)
    IN  /\ \A i \in 1..n :
            /\ i <= a => DriverCmds[i] = "AUTH"
            /\ i = a + 1 => DriverCmds[i] = "REPLCONF"
            /\ i > a + 1 => DriverCmds[i] \in { "PSYNC", "SYNC" }
            /\ DriverCmds[i] = "SYNC" => (i = n /\ i > a + 2 /\ DriverCmds[i - 1] = "PSYNC")
        /\ \A i \in 1..Len(sent) :
            (sent[i].by = "driver" /\ sent[i].cmd = "REPLCONF")
                => sent[i].args = << "listening-port" >>

C6_Witness == DriverCmds = << "AUTH", "REPLCONF", "PSYNC", "PSYNC", "SYNC" >>

\* ---------------------------------------------------------------------- C7
IsErrorReply(rd) == rd.io = "ok" /\ rd.reply.type = "-"
IsUnknownPsync(rd) == IsErrorReply(rd) /\ rd.reply.words = UnknownPsync

\* C7: SYNC is transmitted only when the last PSYNC was answered with the
\* error text "ERR unknown command 'PSYNC'", and after that answer the next
\* thing the driver does is to write SYNC; any other error text is returned by
\* start() as it is, with no SYNC transmitted and no snapshot byte consumed.
C7_SyncOnlyOnUnknownPsync ==
    /\ Sent("SYNC") => IsUnknownPsync(psync_reply)
    /\ IsUnknownPsync(psync_reply) =>
        \/ pc = "sync"
        \/ Sent("SYNC")
        \/ result.kind = "Err" /\ result.at = "sync" /\ result.err = WriteErr
    /\ (IsErrorReply(psync_reply) /\ ~IsUnknownPsync(psync_reply)) =>
        /\ result.kind = "Err" /\ result.at = "psync"
        /\ result.err.msg = psync_reply.reply.words
        /\ ~Sent("SYNC") /\ rdb_read = 0 /\ events = << >>

C7_Witness ==
    /\ Sent("SYNC") /\ IsUnknownPsync(psync_reply)
    /\ result.kind = "Ok" /\ rdb_read = length /\ length > 0

\* ---------------------------------------------------------------------- C8
\* C8 as stated: an unexpected reply shape during the handshake never makes
\* start() end in a panic.
C8_HandshakeNeverPanics ==
    ~(result.kind = "Panic" /\ result.at \in { "psync", "sync" })

\* ---------------------------------------------------------------------- C9
\* C9: no step taken while the driver is in the command-stream loop lowers
\* repl_offset.
C9_OffsetMonotonic ==
    [][ InStream => config'.repl_offset >= config.repl_offset ]_vars

C9_Witness == InStream /\ cmds = 2 /\ config.repl_offset > 30

\* --------------------------------------------------------------------- C10
FullResync == length >= 0
PastSnapshot == pc \in { "synced", "start_heartbeat", "aof_loop", "aof_read", "aof_handle" }
                    \/ result.at \in { "synced", "receive_aof" }

\* C10: after a full resync the snapshot phase has consumed exactly the
\* advertised length, with no RDB event at all when is_discard_rdb and with the
\* parser's events ending in EOR otherwise, and every command event comes
\* after all of that.
C10_SnapshotBeforeCommands ==
    /\ (FullResync /\ PastSnapshot) =>
        /\ rdb_read = length
        /\ config.is_discard_rdb => RdbEvents = { }
        /\ ~config.is_discard_rdb => \E i \in RdbEvents : events[i] = Eor
    /\ \A i \in CmdEvents :
        /\ FullResync => rdb_read = length
        /\ \A j \in RdbEvents : j < i

C10_Witness ==
    /\ FullResync /\ length > 0 /\ rdb_read = length
    /\ CmdEvents # { } /\ RdbEvents # { }

\* ------------------------------------------------------------- reader.rs
\* The reader with the socket under it: `stream` is what the peer sends,
\* `avail` how much of it arrives before the socket reports an error to the
\* call being made, `got` the bytes the socket delivered to reads that
\* succeeded during the call.
Rd(stream, avail, len, marked) ==
    [stream |-> stream, avail |-> avail, len |-> len, marked |-> marked, got |-> 0]

Ok(val, rd) == [kind |-> "Ok", val |-> val, rd |-> rd]
Err(msg, rd) == [kind |-> "Err", val |-> msg, rd |-> rd]
Panic(msg, rd) == [kind |-> "Panic", val |-> msg, rd |-> rd]

\* TcpStream::read_exact: n bytes or an error; on an error the bytes that had
\* arrived are gone from the socket.
stream_read_exact(rd, n) ==
    IF n <= rd.avail
    THEN Ok(SubSeq(rd.stream, 1, n),
            [rd EXCEPT !.stream = SubSeq(@, n + 1, Len(@)), !.avail = @ - n, !.got = @ + n])
    ELSE Err("io", [rd EXCEPT !.stream = SubSeq(@, rd.avail + 1, Len(@)), !.avail = 0])

\* Mutant of counted: the flag is not looked at.
counted_unmarked(rd, n) == [rd EXCEPT !.len = @ + n]

\* `if self.marked { self.len += n }`
counted(rd, n) == IF rd.marked THEN [rd EXCEPT !.len = @ + n] ELSE rd

RECURSIVE signed_be(_)
\* byteorder's read_i16/read_i32::<BigEndian>: two's complement, first byte on top.
signed_be(bytes) ==
    IF Len(bytes) = 1 THEN (IF bytes[1] >= 128 THEN bytes[1] - 256 ELSE bytes[1])
    ELSE signed_be(SubSeq(bytes, 1, Len(bytes) - 1)) * 256 + bytes[Len(bytes)]

reversed(bytes) == [i \in 1..Len(bytes) |-> bytes[Len(bytes) + 1 - i]]

\* byteorder's read_i16/read_i32::<LittleEndian>
signed_le(bytes) == signed_be(reversed(bytes))

\* read_i64::<BigEndian>: the number when it fits 32 bits, else its two halves.
wide_be(bytes) ==
    LET hi == SubSeq(bytes, 1, 4)
        lo == SubSeq(bytes, 5, 8)
    IN  IF \/ hi = << 0, 0, 0, 0 >> /\ lo[1] < 128
           \/ hi = << 255, 255, 255, 255 >> /\ lo[1] >= 128
        THEN signed_be(lo)
        ELSE [hi |-> signed_be(hi), lo |-> lo]

wide_le(bytes) == wide_be(reversed(bytes))

read_u8(rd) ==
    LET s == stream_read_exact(rd, 1)
    IN  IF s.kind # "Ok" THEN s ELSE Ok(s.val[1], counted(s.rd, 1))

read_exact(rd, n) ==
    LET s == stream_read_exact(rd, n)
    IN  IF s.kind # "Ok" THEN s ELSE Ok(s.val, counted(s.rd, n))

read_i64(rd, is_big_endian) ==
    LET s == stream_read_exact(rd, 8)
    IN  IF s.kind # "Ok" THEN s
        ELSE Ok(IF is_big_endian THEN wide_be(s.val) ELSE wide_le(s.val), counted(s.rd, 8))

read_i8(rd) ==
    LET s == stream_read_exact(rd, 1)
    IN  IF s.kind # "Ok" THEN s ELSE Ok(signed_be(s.val), counted(s.rd, 1))

\* Reader::mark
reader_mark(rd) == [rd EXCEPT !.marked = TRUE]

\* Mutant of unmark: the flag stays set.
unmark_keeps_flag(rd) ==
    IF rd.marked THEN Ok(rd.len, [rd EXCEPT !.len = 0])
    ELSE Err("Reader not marked", rd)

\* Mutant of unmark: the counter is returned but not cleared.
unmark_keeps_len(rd) ==
    IF rd.marked THEN Ok(rd.len, [rd EXCEPT !.marked = FALSE])
    ELSE Err("Reader not marked", rd)

unmark(rd) ==
    IF rd.marked THEN Ok(rd.len, [rd EXCEPT !.len = 0, !.marked = FALSE])
    ELSE Err("Reader not marked", rd)

RDB_ENCVAL == 3
RDB_6BITLEN == 0
RDB_14BITLEN == 1
RDB_32BITLEN == 128
RDB_64BITLEN == 129
RDB_ENC_INT8 == 0
RDB_ENC_INT16 == 1
RDB_ENC_INT32 == 2
RDB_ENC_LZF == 3

read_integer(rd, size, is_big_endian) ==
    LET s == read_exact(rd, size)
    IN  IF s.kind # "Ok" THEN s
        ELSE IF size \in { 2, 4 }
            THEN Ok(IF is_big_endian THEN signed_be(s.val) ELSE signed_le(s.val), s.rd)
        ELSE IF size = 8
            THEN Ok(IF is_big_endian THEN wide_be(s.val) ELSE wide_le(s.val), s.rd)
        ELSE Err("Invalid integer size", s.rd)

\* The value is the pair (length, is_encoded).
read_length(rd) ==
    LET b == read_u8(rd)
        byte == b.val
        type == byte \div 64
    IN  IF b.kind # "Ok" THEN b
        ELSE IF type = RDB_ENCVAL THEN Ok(<< byte % 64, TRUE >>, b.rd)
        ELSE IF type = RDB_6BITLEN THEN Ok(<< byte % 64, FALSE >>, b.rd)
        ELSE IF type = RDB_14BITLEN
            THEN LET n == read_u8(b.rd)
                 IN  IF n.kind # "Ok" THEN n
                     ELSE Ok(<< (byte % 64) * 256 + n.val, FALSE >>, n.rd)
        ELSE IF byte \in { RDB_32BITLEN, RDB_64BITLEN }
            THEN LET i == read_integer(b.rd, IF byte = RDB_32BITLEN THEN 4 ELSE 8, TRUE)
                 IN  IF i.kind # "Ok" THEN i ELSE Ok(<< i.val, FALSE >>, i.rd)
        ELSE Ok(<< -1, FALSE >>, b.rd)

DigitChar == << "0", "1", "2", "3", "4", "5", "6", "7", "8", "9" >>

RECURSIVE dec_neg(_)
\* The decimal digits of -m, for m <= 0.
dec_neg(m) ==
    LET last == (10 - (m % 10)) % 10
        rest == (m \div 10) + (IF m % 10 # 0 THEN 1 ELSE 0)
    IN  (IF rest = 0 THEN << >> ELSE dec_neg(rest)) \o << DigitChar[last + 1] >>

\* Mutant of int_to_string: the sign is dropped.
int_to_string_abs(n) == dec_neg(IF n > 0 THEN -n ELSE n)

\* `int.to_string().into_bytes()`
int_to_string(n) == IF n < 0 THEN << "-" >> \o dec_neg(n) ELSE dec_neg(-n)

RECURSIVE lzf_run(_, _)
\* lzf::decompress, control byte by control byte: what it wrote, and whether
\* the input was well formed.
lzf_run(src, out) ==
    IF src = << >> THEN [ok |-> TRUE, out |-> out]
    ELSE LET c == src[1]
         IN  IF c < 32
             THEN IF Len(src) < c + 2 THEN [ok |-> FALSE, out |-> out]
                  ELSE lzf_run(SubSeq(src, c + 3, Len(src)), out \o SubSeq(src, 2, c + 2))
             ELSE [ok |-> FALSE, out |-> out]

\* The caller's buffer of dst_len zero bytes after decompress wrote into it.
lzf_decompress(src, dst_len) ==
    LET run == lzf_run(src, << >>)
    IN  [ok |-> run.ok /\ Len(run.out) = dst_len,
         dst |-> [i \in 1..dst_len |-> IF i <= Len(run.out) THEN run.out[i] ELSE 0]]

\* `vec![0; n as usize]` for an n that is not a usable size.
bad_size(n) == n \notin Nat

read_string(rd) ==
    LET l == read_length(rd)
        len == l.val[1]
        is_encoded == l.val[2]
    IN  IF l.kind # "Ok" THEN l
        ELSE IF is_encoded /\ len = RDB_ENC_INT8
            THEN LET i == read_i8(l.rd)
                 IN  IF i.kind # "Ok" THEN i ELSE Ok(int_to_string(i.val), i.rd)
        ELSE IF is_encoded /\ len \in { RDB_ENC_INT16, RDB_ENC_INT32 }
            THEN LET i == read_integer(l.rd, IF len = RDB_ENC_INT16 THEN 2 ELSE 4, FALSE)
                 IN  IF i.kind # "Ok" THEN i ELSE Ok(int_to_string(i.val), i.rd)
        ELSE IF is_encoded /\ len = RDB_ENC_LZF
            THEN LET c == read_length(l.rd)
                     o == read_length(c.rd)
                     d == read_exact(o.rd, c.val[1])
                 IN  IF c.kind # "Ok" THEN c
                     ELSE IF o.kind # "Ok" THEN o
                     ELSE IF bad_size(c.val[1]) THEN Panic("capacity overflow", o.rd)
                     ELSE IF d.kind # "Ok" THEN d
                     ELSE IF bad_size(o.val[1]) THEN Panic("capacity overflow", d.rd)
                     ELSE Ok(lzf_decompress(d.val, o.val[1]).dst, d.rd)
        ELSE IF is_encoded THEN Err("Invalid string length", l.rd)
        ELSE IF bad_size(len) THEN Panic("capacity overflow", l.rd)
        ELSE read_exact(l.rd, len)

read_double(rd) ==
    LET l == read_u8(rd)
    IN  IF l.kind # "Ok" THEN l
        ELSE IF l.val = 255 THEN Ok(<< "-", "i", "n", "f" >>, l.rd)
        ELSE IF l.val = 254 THEN Ok(<< "i", "n", "f" >>, l.rd)
        ELSE IF l.val = 253 THEN Ok(<< "N", "a", "N" >>, l.rd)
        ELSE read_exact(l.rd, 0)

\* ---- the callers of the reader
MaxTail == 1
MaxPartial == 1

ByteVals == { 0, 1, 127, 128, 255 }
EdgeVals == { 0, 255 }
LowVals == { 0, 1, 255 }
HighVals == { 0, 127, 128, 255 }

\* What the peer may send: the three integer encodings over the edge values
\* of every payload byte, and one stream for every other branch of the reader.
Items ==
    { << 192, a >> : a \in ByteVals }
        \cup { << 193, a, b >> : a \in ByteVals, b \in ByteVals }
        \cup { << 194, a, b, c, d >> : a \in LowVals, b \in EdgeVals,
                                       c \in EdgeVals, d \in HighVals }
        \cup { << 2, 65, 66 >>, << 64, 1, 65 >>, << 128, 0, 0, 0, 1, 65 >>,
               << 128, 255, 255, 255, 255 >>, << 129, 0, 0, 0, 0, 0, 0, 0, 1, 65 >>,
               << 130, 65 >>, << 195, 2, 1, 0, 65 >>, << 195, 2, 2, 0, 65 >>,
               << 196, 1 >>, << 255 >>, << 254 >>, << 253 >>, << 3, 65, 66, 67 >>,
               << 0, 0, 0, 0, 0, 0, 1, 2 >>, << 1, 0, 0, 0, 0, 0, 0, 128, 9 >> }

\* Every item is followed by more of the stream.
Streams == { i \o [k \in 1..MaxTail |-> 7] : i \in Items }

ExactSizes == { 0, 2 }
IntegerSizes == { 1, 2, 4, 8 }

\* The reader as the call finds it, with `a` bytes arriving before an error.
Here(a) == Rd(r_stream, a, r_len, r_marked)

\* The whole stream arrives, or the socket fails after a few bytes.
Arrivals == { a \in 0..Len(r_stream) : a <= MaxPartial \/ a = Len(r_stream) }

\* One call on the reader: its effect on the reader and what it returned.
\* r_since counts what the socket delivered to successful reads between a
\* mark() and the next unmark().
Call(op, res) ==
    /\ r_stream' = res.rd.stream
    /\ r_len' = res.rd.len
    /\ r_marked' = res.rd.marked
    /\ r_ret' = [op |-> op, kind |-> res.kind, val |-> res.val, input |-> r_stream,
                 prev |-> r_ret.op = "unmark"]
    /\ r_open' = IF op = "mark" THEN TRUE ELSE IF op = "unmark" THEN FALSE ELSE r_open
    /\ r_since' = IF op = "mark" THEN 0
                  ELSE IF r_open THEN r_since + res.rd.got ELSE r_since
    /\ r_remarked' = IF op = "mark" THEN r_open ELSE r_remarked
    /\ UNCHANGED lvars

call_mark == \E a \in { 0 } : Call("mark", Ok(<< >>, reader_mark(Here(a))))
call_unmark == \E a \in { 0 } : Call("unmark", unmark(Here(a)))
call_read_u8 == \E a \in Arrivals : Call("read_u8", read_u8(Here(a)))
call_read_i8 == \E a \in Arrivals : Call("read_i8", read_i8(Here(a)))
call_read_exact ==
    \E a \in Arrivals, n \in ExactSizes : Call("read_exact", read_exact(Here(a), n))
call_read_i64 ==
    \E a \in Arrivals, be \in BOOLEAN : Call("read_i64", read_i64(Here(a), be))
call_read_length == \E a \in Arrivals : Call("read_length", read_length(Here(a)))
call_read_integer ==
    \E a \in Arrivals, size \in IntegerSizes, be \in BOOLEAN :
        Call("read_integer", read_integer(Here(a), size, be))
call_read_string == \E a \in Arrivals : Call("read_string", read_string(Here(a)))
call_read_double == \E a \in Arrivals : Call("read_double", read_double(Here(a)))

ReaderNext ==
    \/ call_mark
    \/ call_unmark
    \/ call_read_u8
    \/ call_read_i8
    \/ call_read_exact
    \/ call_read_i64
    \/ call_read_length
    \/ call_read_integer
    \/ call_read_string
    \/ call_read_double

\* The reader on its own: the driver is built and never started.
ReaderConfigs == { c \in Configs : c.is_aof /\ c.password = "" /\ ~c.is_discard_rdb }
ReaderInit == ListenerNew(ReaderConfigs) /\ \E s \in Streams : ReaderNew(s)
ReaderSpec == ReaderInit /\ [][ReaderNext]_vars

\* --------------------------------------------------------------------- C11
AckSent == \E i \in 1..Len(sent) : sent[i].by = "heartbeat"

\* C11: with is_aof = false start() never goes past the resync: it spawns no
\* heartbeat worker, no REPLCONF ACK is transmitted, no command is decoded or
\* delivered, and when it returns Ok it does so right after the resync (or
\* from the wait state).
C11_NoAofReturnsAfterResync ==
    ~config.is_aof =>
        /\ hb_pc = "none" /\ ~sender /\ ~heartbeat_thread
        /\ ~AckSent
        /\ CmdEvents = { } /\ cmds = 0
        /\ ~InStream /\ pc # "start_heartbeat"
        /\ result.kind = "Ok" => result.at \in { "synced", "wait" }

C11_Witness ==
    /\ ~config.is_aof /\ mode = "PSync"
    /\ result.kind = "Ok" /\ result.at = "synced"

\* --------------------------------------------------------------------- C12
\* C12: in mode Sync there is never a heartbeat worker, a mailbox sender or a
\* transmitted REPLCONF ACK, whatever is_aof and the running flag.
C12_SyncHasNoHeartbeat ==
    mode = "Sync" => (hb_pc = "none" /\ ~sender /\ ~heartbeat_thread /\ ~AckSent)

C12_Witness ==
    /\ mode = "Sync" /\ config.is_aof /\ running
    /\ InStream /\ cmds > 0

\* --------------------------------------------------------------------- C13
TerminateQueued == \E i \in 1..Len(mailbox) : mailbox[i] = Terminate

\* C13: drop() appends Terminate to the mailbox of a live worker; once
\* Terminate is queued the worker eventually exits, and it takes Terminate
\* only when every message queued before it has been taken; drop() returns
\* only when the worker it joined has exited.
C13_DropTerminatesAndJoins ==
    /\ [][ (pc' = "drop_join" /\ pc # "drop_join" /\ sender /\ hb_pc = "loop")
              => mailbox' = Append(mailbox, Terminate) ]_vars
    /\ [][ (TerminateQueued /\ hb_pc = "loop" /\ hb_pc' = "done" /\ sent' = sent /\ acks' = acks)
              => (Head(mailbox) = Terminate /\ mailbox' = Tail(mailbox)) ]_vars
    /\ [][ (pc' = "dropped" /\ pc # "dropped" /\ heartbeat_thread) => hb_pc = "done" ]_vars
    /\ (TerminateQueued ~> hb_pc = "done")

C13_Witness ==
    /\ pc = "dropped" /\ hb_pc = "done"
    /\ mailbox = << >> /\ hb_offset > 0 /\ cmds > 0

\* --------------------------------------------------------------------- C14
PrimReads == { "read_u8", "read_i8", "read_exact", "read_i64" }

\* What tells one call from the next: a call that leaves all of this alone
\* consumed nothing, as the call before it, and returned what that one did.
rkey == << r_ret.op, r_ret.kind, r_ret.prev, r_ret.input,
           r_stream, r_len, r_marked, r_open, r_since, r_remarked >>

\* C14: between a mark() and the unmark() that follows it, with no second
\* mark() in between, the counter equals the bytes delivered to the reads that
\* succeeded, unmark() returns that sum, and a primitive read that fails
\* leaves the counter as it was.
C14_UnmarkCountsDelivered ==
    /\ []((r_open /\ ~r_remarked) => (r_marked /\ r_len = r_since))
    /\ []((r_ret.op = "unmark" /\ r_ret.kind = "Ok" /\ ~r_remarked) => r_ret.val = r_since)
    /\ [][ (r_ret'.op \in PrimReads /\ r_ret'.kind # "Ok") => r_len' = r_len ]_rkey

C14_Witness ==
    /\ r_ret.op = "unmark" /\ r_ret.kind = "Ok" /\ ~r_remarked
    /\ r_ret.val = 3 /\ r_since = 3
    /\ Len(r_stream) > 0

\* --------------------------------------------------------------------- C15
\* C15: every mark() leaves the flag set and the counter at 0, so unmark()
\* returns the bytes delivered since the last mark().
C15_MarkResetsCounter ==
    /\ r_ret.op = "mark" => (r_marked /\ r_len = 0)
    /\ (r_ret.op = "unmark" /\ r_ret.kind = "Ok") => r_ret.val = r_since

\* --------------------------------------------------------------------- C16
\* C16: unmark() on a marked reader returns the counter and leaves the flag
\* cleared and the counter at 0; on a reader that is not marked it fails and
\* changes nothing; an unmark() that follows an unmark() fails.
C16_UnmarkClearsOrFails ==
    /\ [][ r_ret'.op = "unmark" =>
             IF r_marked
             THEN r_ret'.kind = "Ok" /\ r_ret'.val = r_len /\ ~r_marked' /\ r_len' = 0
             ELSE /\ r_ret'.kind = "Err"
                  /\ r_marked' = r_marked /\ r_len' = r_len /\ r_stream' = r_stream ]_rkey
    /\ []((r_ret.op = "unmark" /\ r_ret.prev) => r_ret.kind = "Err")

C16_Witness ==
    /\ r_ret.op = "unmark" /\ r_ret.prev /\ r_ret.kind = "Err"
    /\ ~r_marked /\ r_len = 0 /\ r_since > 0

\* --------------------------------------------------------------------- C17
DigitVal(ch) == CHOOSE d \in 0..9 : DigitChar[d + 1] = ch
IsDigit(ch) == \E d \in 0..9 : DigitChar[d + 1] = ch

\* A decimal rendering: digits, no leading zero, '-' only before a non-zero number.
IsDecimal(str) ==
    LET ds == IF str # << >> /\ str[1] = "-" THEN Tail(str) ELSE str
    IN  /\ ds # << >>
        /\ \A i \in 1..Len(ds) : IsDigit(ds[i])
        /\ ds[1] = "0" => (Len(ds) = 1 /\ ds = str)

RECURSIVE NegValue(_)
NegValue(ds) ==
    IF ds = << >> THEN 0
    ELSE NegValue(SubSeq(ds, 1, Len(ds) - 1)) * 10 - DigitVal(ds[Len(ds)])

\* The number a decimal rendering stands for.
Value(str) == IF str[1] = "-" THEN NegValue(Tail(str)) ELSE -NegValue(str)

EncWidth(byte) == CASE byte = 192 -> 1 [] byte = 193 -> 2 [] byte = 194 -> 4

\* C17: read_string on an encoding byte 0xC0, 0xC1 or 0xC2 never panics, and
\* when it returns a value that value is the decimal rendering of the signed
\* number whose little-endian two's complement bytes are the 1, 2 or 4 bytes
\* after the encoding byte, and exactly those bytes are gone from the stream.
C17_EncodedIntegers ==
    (/\ r_ret.op = "read_string"
     /\ r_ret.input # << >>
     /\ r_ret.input[1] \in { 192, 193, 194 })
    => /\ r_ret.kind # "Panic"
       /\ r_ret.kind = "Ok" =>
            LET n == EncWidth(r_ret.input[1])
                v == Value(r_ret.val)
            IN  /\ IsDecimal(r_ret.val)
                /\ v >= (-(2 ^ (8 * n - 2))) * 2
                /\ v <= (2 ^ (8 * n - 2) - 1) * 2 + 1
                /\ \A i \in 0..(n - 1) : (v \div (256 ^ i)) % 256 = r_ret.input[i + 2]
                /\ r_stream = SubSeq(r_ret.input, n + 2, Len(r_ret.input))

C17_Witness ==
    /\ r_ret.op = "read_string" /\ r_ret.kind = "Ok"
    /\ r_ret.input[1] = 194
    /\ r_ret.val = << "-", "2", "1", "4", "7", "4", "8", "3", "6", "4", "8" >>
    /\ Len(r_stream) = MaxTail

\* --------------------------------------------------------------------- C18
PsyncWords == psync_reply.reply.words
GoodFullResync ==
    /\ psync_reply.io = "ok" /\ psync_reply.reply.type = "+"
    /\ PsyncWords = << "FULLRESYNC", "id1", "7" >>

\* C18: once PSYNC was answered +FULLRESYNC id1 7 the driver holds repl_id =
\* id1, and repl_offset = 7 for as long as no command was counted: already
\* with no snapshot byte consumed, also when the bulk header fails, and at
\* entry to the streaming loop.
C18_FullResyncSetsIdAndOffset ==
    GoodFullResync =>
        /\ config.repl_id = "id1"
        /\ cmds = 0 => config.repl_offset = 7

C18_Witness ==
    /\ GoodFullResync /\ pc = "rdb"
    /\ length > 0 /\ rdb_read = 0 /\ events = << >>
    /\ config.repl_id = "id1" /\ config.repl_offset = 7

\* --------------------------------------------------------------------- C19
ContinueReply ==
    /\ psync_reply.io = "ok" /\ psync_reply.reply.type = "+"
    /\ PsyncWords # << >> /\ PsyncWords[1] = "CONTINUE"

\* C19: once PSYNC was answered +CONTINUE the mode is PSync, no snapshot header
\* or body was read and no snapshot event delivered, repl_id is the id of the
\* reply when it has one and the configured id otherwise, and repl_offset is
\* the configured offset for as long as no command was counted.
C19_ContinueKeepsOffset ==
    ContinueReply =>
        /\ mode = "PSync"
        /\ length = -1 /\ rdb_read = 0 /\ RdbEvents = { }
        /\ pc \notin { "psync", "sync", "rdb", "wait" }
        /\ config.repl_id = IF Len(PsyncWords) >= 2 THEN PsyncWords[2] ELSE "?"
        /\ cmds = 0 => config.repl_offset = -1

C19_Witness ==
    /\ ContinueReply /\ Len(PsyncWords) = 2
    /\ config.repl_id = "id2" /\ config.repl_offset = -1
    /\ pc = "aof_loop" /\ mode = "PSync"

\* --------------------------------------------------------------------- C20
DecLen(n) == IF n < 10 THEN 1 ELSE IF n < 100 THEN 2 ELSE 3

\* The bytes of one array of bulk strings on the wire:
\* "*<n>\r\n" and then "$<len>\r\n<payload>\r\n" for each element.
RECURSIVE BulkBytes(_)
BulkBytes(elems) ==
    IF elems = << >> THEN 0
    ELSE (1 + DecLen(Head(elems).len) + 2) + (Head(elems).len + 2) + BulkBytes(Tail(elems))

WireLen(elems) == (1 + DecLen(Len(elems)) + 2) + BulkBytes(elems)

RECURSIVE TotalWire(_)
TotalWire(arrays) ==
    IF arrays = << >> THEN 0 ELSE WireLen(Head(arrays)) + TotalWire(Tail(arrays))

\* repl_offset when the streaming loop is entered (C18, C19; SYNC sets nothing).
EntryOffset == IF GoodFullResync THEN 7 ELSE -1

\* C20: every counted command adds the wire length of its own array to
\* repl_offset, so after n commands repl_offset is its value at entry to the
\* streaming loop plus the wire length of those n arrays; the counter is back
\* at 0 when the next command is read.
C20_OffsetIsEntryPlusWire ==
    /\ [](Len(decoded) = cmds /\ config.repl_offset = EntryOffset + TotalWire(decoded))
    /\ [](pc \in { "aof_loop", "aof_read" } => (reader.len = 0 /\ ~reader.marked))
    /\ [][ decoded' # decoded =>
             /\ decoded' = Append(decoded, decoded'[Len(decoded')])
             /\ config'.repl_offset
                  = config.repl_offset + WireLen(decoded'[Len(decoded')]) ]_vars

C20_Witness ==
    /\ Len(decoded) = 2 /\ decoded[1] # decoded[2]
    /\ GoodFullResync /\ config.repl_offset = 7 + 14 + 37
    /\ pc = "aof_loop"

\* --------------------------------------------------------------------- C21
\* The offsets of the REPLCONF ACKs on the wire, in order.
AckOffsets ==
    LET acked == SelectSeq(sent, LAMBDA c : c.by = "heartbeat")
    IN  [i \in 1..Len(acked) |-> acked[i].args[2]]

\* The offsets queued for the worker, in order.
QueuedOffsets ==
    LET some == SelectSeq(mailbox, LAMBDA m : m.tag = "Some")
    IN  [i \in 1..Len(some) |-> some[i].off]

NonDecreasing(seq) == \A i, j \in 1..Len(seq) : i < j => seq[i] <= seq[j]

\* C21 as stated: the worker takes the updates in the order they were pushed,
\* the offsets of successive ACKs never decrease, and no ACK carries more than
\* the driver's current repl_offset.
C21_AcksOrderedAndBounded ==
    /\ NonDecreasing(<< hb_offset >> \o QueuedOffsets)
    /\ NonDecreasing(AckOffsets)
    /\ \A i \in 1..Len(AckOffsets) : AckOffsets[i] <= config.repl_offset

\* --------------------------------------------------------------------- C22
\* Every value repl_offset has held since the driver was built.
HeldOffsets ==
    { -1, EntryOffset }
        \cup { EntryOffset + TotalWire(SubSeq(decoded, 1, k)) : k \in 1..Len(decoded) }

\* C22 as stated, weakened to its least demand: every ACK carries a value that
\* repl_offset has held at some moment.
C22_AckCarriesHeldOffset ==
    \A i \in 1..Len(AckOffsets) : AckOffsets[i] \in HeldOffsets

\* --------------------------------------------------------------------- C23
\* C23: a failed heartbeat write ends the worker, a worker that has ended
\* writes no ACK, and a command counted with the worker gone leaves the mailbox
\* alone, advances repl_offset and goes on to its handler without ending start().
C23_WriteFailureEndsWorkerOnly ==
    /\ [][ (acks' = acks + 1 /\ sent' = sent) => hb_pc' = "done" ]_vars
    /\ [][ hb_pc = "done" => (hb_pc' = "done" /\ AckOffsets' = AckOffsets) ]_vars
    /\ [][ (hb_pc = "done" /\ sender /\ cmds' = cmds + 1 /\ mode = "PSync") =>
             /\ mailbox' = mailbox
             /\ config'.repl_offset > config.repl_offset
             /\ pc' = "aof_handle" /\ result' = result ]_vars
    /\ [][ (hb_pc = "done" /\ pc = "aof_handle" /\ pc' # pc) =>
             (pc' = "aof_loop" /\ Cardinality(CmdEvents') = cmds) ]_vars

C23_Witness ==
    /\ hb_pc = "done" /\ mode = "PSync" /\ sender
    /\ result.kind = "None" /\ pc = "aof_loop"
    /\ acks = 1 /\ AckOffsets = << >>
    /\ mailbox = << >> /\ hb_offset = 0
    /\ cmds = 2 /\ Cardinality(CmdEvents) = 2

\* --------------------------------------------------------------------- C24
\* C24: on the wire no command of the driver comes after a REPLCONF ACK, and
\* no step taken with the worker spawned adds a command of the driver.
C24_DriverSilentAfterSpawn ==
    /\ [](\A i, j \in 1..Len(sent) :
            (i < j /\ sent[i].by = "heartbeat") => sent[j].by = "heartbeat")
    /\ [][ Spawned => DriverCmds' = DriverCmds ]_vars
    /\ [](Spawned => (Sent("PSYNC") /\ Sent("REPLCONF")))

C24_Witness ==
    /\ Spawned /\ Len(AckOffsets) = MaxAcks
    /\ Sent("AUTH") /\ Sent("REPLCONF") /\ Sent("PSYNC")
    /\ cmds > 0

\* --------------------------------------------------------------------- C25
\* C25: with the flag cleared and not written again at most one more command
\* is counted and delivered; the streaming loop, finding the flag cleared at
\* its head, does nothing but return Ok.
C25_FlagCheckedAtLoopHead ==
    /\ [](late <= 1)
    /\ []((late = 1 /\ pc = "returned") =>
            (result.kind = "Ok" /\ result.at = "receive_aof" /\ Cardinality(CmdEvents) = cmds))
    /\ [][ (pc = "aof_loop" /\ ~running /\ pc' # pc) =>
             (pc' = "returned" /\ result'.kind = "Ok" /\ cmds' = cmds /\ events' = events) ]_vars

C25_Witness ==
    /\ late = 1 /\ ~running /\ pc = "returned"
    /\ result.kind = "Ok" /\ Cardinality(CmdEvents) = cmds

\* --------------------------------------------------------------------- C29
\* C29 as stated: in mode PSync the streaming loop never counts a command
\* with the mailbox sender missing, so start() never panics on it.
C29_SenderExistsWhenPushing ==
    ~(/\ mode = "PSync" /\ config.is_aof /\ ~sender
      /\ result.kind = "Panic" /\ result.at = "receive_aof"
      /\ cmds > Cardinality(CmdEvents))

\* --------------------------------------------------------------------- C30
\* The update for the offset the driver holds is queued or has been taken.
UpdateOnItsWay ==
    \/ \E i \in 1..Len(QueuedOffsets) : QueuedOffsets[i] = config.repl_offset
    \/ hb_offset = config.repl_offset

\* C30: when the handler is about to be called for a command, repl_offset
\* already includes that command and, with a live worker, the update carrying
\* it is queued or taken; the handler is called for the command counted last,
\* and neither the offset nor the mailbox changes in that step.
C30_OffsetBeforeHandler ==
    /\ [](pc = "aof_handle" =>
            /\ cmds = Cardinality(CmdEvents) + 1
            /\ Len(decoded) = cmds
            /\ config.repl_offset = EntryOffset + TotalWire(decoded)
            /\ (mode = "PSync" /\ hb_pc = "loop") => UpdateOnItsWay)
    /\ [](pc # "aof_handle" => (cmds = Cardinality(CmdEvents) \/ result.kind = "Panic"))
    /\ [][ CmdEvents' # CmdEvents =>
             /\ pc = "aof_handle"
             /\ events' = Append(events, Command(cmds))
             /\ config' = config /\ mailbox' = mailbox ]_vars

C30_Witness ==
    /\ pc = "aof_handle" /\ cmds = 2 /\ Cardinality(CmdEvents) = 1
    /\ Len(AckOffsets) > 0
    /\ AckOffsets[Len(AckOffsets)] = config.repl_offset

\* --------------------------------------------------------------------- C26
\* C26 as stated: read_length returns a length only for the five forms, the
\* 0x80 form giving the unsigned value of the next four big-endian bytes;
\* every other first byte 10xxxxxx is refused.
C26_LengthForms ==
    (r_ret.op = "read_length" /\ r_ret.kind = "Ok") =>
        LET in == r_ret.input
            byte == in[1]
        IN  IF byte < 64 THEN r_ret.val = << byte, FALSE >>
            ELSE IF byte < 128 THEN r_ret.val = << (byte - 64) * 256 + in[2], FALSE >>
            ELSE IF byte = RDB_32BITLEN
                THEN /\ r_ret.val[2] = FALSE
                     /\ r_ret.val[1] >= 0
                     /\ in[2] < 128 =>
                            r_ret.val[1] = ((in[2] * 256 + in[3]) * 256 + in[4]) * 256 + in[5]
            ELSE IF byte = RDB_64BITLEN
                THEN /\ r_ret.val[2] = FALSE
                     /\ SubSeq(in, 2, 6) = << 0, 0, 0, 0, 0 >> =>
                            r_ret.val[1] = (in[7] * 256 + in[8]) * 256 + in[9]
            ELSE IF byte >= 192 THEN r_ret.val = << byte - 192, TRUE >>
            ELSE FALSE

\* --------------------------------------------------------------------- C27
\* C27 as stated: read_string on an LZF block returns a value only when the
\* clen compressed bytes decompress to exactly ulen bytes, and then it has
\* consumed the three header bytes and clen bytes and returns ulen bytes.
C27_LzfFillsExactly ==
    (r_ret.op = "read_string" /\ r_ret.kind = "Ok" /\ r_ret.input[1] = 192 + RDB_ENC_LZF) =>
        LET in == r_ret.input
            clen == in[2]
            ulen == in[3]
        IN  (clen < 64 /\ ulen < 64) =>
                /\ Len(r_stream) = Len(in) - 3 - clen
                /\ Len(r_ret.val) = ulen
                /\ lzf_decompress(SubSeq(in, 4, 3 + clen), ulen).ok

\* --------------------------------------------------------------------- C28
\* C28 as stated: read_double consumes the length byte only for 255, 254 and
\* 253; for any other length byte len it consumes len further bytes and
\* returns them, leaving the stream 1 + len bytes further.
C28_DoubleConsumesLen ==
    (r_ret.op = "read_double" /\ r_ret.kind = "Ok") =>
        LET in == r_ret.input
            len == in[1]
        IN  IF len \in { 253, 254, 255 }
            THEN Len(r_stream) = Len(in) - 1
            ELSE /\ Len(r_stream) = Len(in) - 1 - len
                 /\ r_ret.val = SubSeq(in, 2, 1 + len)

\* --------------------------------------------------------------------- C31
\* C31: a reader that is not marked has its counter at 0 and the counter is
\* never negative; a read made while the reader is not marked leaves the
\* counter as it was, and an unmark() that succeeds leaves it at 0.
C31_UnmarkedCounterZero ==
    /\ [](~r_marked => r_len = 0)
    /\ [](r_len >= 0)
    /\ [][ (~r_marked /\ r_ret'.op \notin { "mark", "unmark" }) => r_len' = r_len ]_rkey
    /\ [][ (r_ret'.op = "unmark" /\ r_ret'.kind = "Ok") => r_len' = 0 ]_rkey

\* A read that consumed bytes on a reader unmarked again after it had counted.
C31_Witness ==
    /\ r_ret.op \in PrimReads /\ r_ret.kind = "Ok"
    /\ Len(r_stream) < Len(r_ret.input)
    /\ ~r_marked /\ ~r_open /\ r_len = 0
    /\ r_since > 0

====
